---------------------------- MODULE Spec2Model ----------------------------
(***************************************************************************)
(* A model of scrapper.py: the field extractors, extract_product_data,     *)
(* and the run  load_existing_products -> scrape_all_pages -> save_to_csv  *)
(* -> "Total products in" of main.                                         *)
(*                                                                         *)
(* A product card (a bs4 Tag) is a record of the signals the selectors and *)
(* regular expressions of the source read from it.  A number written in a  *)
(* label or a text is the pair <<int, frac>>: its integer part and its     *)
(* first fractional digit (frac = -1: no fractional part written).         *)
(* A url is its path, a number; the 'tcin' column is a function of the url *)
(* alone and is left out of the records.                                   *)
(***************************************************************************)
EXTENDS Integers, Sequences, FiniteSets, TLC

\* ------------------------------------------------------------------ bounds
MaxUrl     == 2   \* distinct product paths
MaxCards   == 2   \* product cards per document
NumPages   == 2   \* pages of a run (PAGES_TO_SCRAPE, scaled down)
MaxWritten == 6   \* largest integer part of a number written in a label or text
MaxStars   == 5   \* full-star icons in a rating-stars container
MaxHalf    == 2   \* half-star icons in a rating-stars container

VARIABLES
    csv,                 \* OUTPUT_CSV: NoFile, or the sequence of its data rows
    pc,                  \* position of main
    page_num,            \* loop variable of scrape_all_pages
    existing_urls,       \* the Identity Set of scrape_all_pages
    all_products,        \* records accumulated by scrape_all_pages
    new_products_count,  \* counter of scrape_all_pages
    total,               \* the number main prints as "Total products in"
    loaded_urls,         \* history: the Identity Set as loaded at run start
    csv_at_start,        \* history: the store at run start
    ref_urls,            \* history: Identity Set of the record-by-record filter
    ref_products,        \* history: records accepted by the record-by-record filter
    pages_seen,          \* history: the pages this run has handled
    extracted,           \* history: the identities this run has extracted
    prev_extracted,      \* history: the identities the previous run extracted
    last_products,       \* local `products` of the page processed last
    outcome,             \* what the loop printed for the page handled last
    failures,            \* history: the pages of this run that raised
    soup,                \* the document given to extract_product_data
    products,            \* what extract_product_data returned for soup
    container,           \* the card given to extract_star_rating
    rating               \* what extract_star_rating returned for container

runVars     == <<csv, pc, page_num, existing_urls, all_products, new_products_count,
                 total, loaded_urls, csv_at_start, ref_urls, ref_products,
                 pages_seen, extracted, prev_extracted, last_products, outcome,
                 failures>>
extractVars == <<soup, products>>
ratingVars  == <<container, rating>>
vars        == <<runVars, extractVars, ratingVars>>

\* ------------------------------------------------------------- the inputs
NoElem   == <<>>        \* select_one / find returned None
NoNumber == <<-1, -1>>  \* the text holds no digit where the pattern wants one
Written  == {<<i, f>> : i \in 0..MaxWritten, f \in {-1, 0, 5}}

\* aria-label of the first element matching [aria-label*="out of 5 stars"]
Labels == {NoElem, NoNumber} \cup Written
\* the icons of div[data-test="rating-stars"]: <<full-star icons, half-star icons>>
StarBoxes == {NoElem} \cup {<<full, half>> : full \in 0..MaxStars, half \in 0..MaxHalf}
\* the first text node matching /out of 5/
RatingTexts == {NoElem, NoNumber} \cup Written

\* the strings a rating can be: "N/A", or "<whole>.<frac>/5"
NA_rating     == [kind |-> "N/A", whole |-> 0, frac |-> 0]
NoRatingYet   == [kind |-> "pending", whole |-> 0, frac |-> 0]

\* f"{float(s)}/5" of a written number: float's repr always shows a fractional part
FloatOver5(n) ==
    [kind |-> "v/5", whole |-> n[1], frac |-> IF n[2] = -1 THEN 0 ELSE n[2]]

\* f"{filled_stars + half_star*0.5}/5"
StarsOver5(filled_stars, halves) ==
    [kind |-> "v/5", whole |-> filled_stars + (halves \div 2),
     frac |-> IF halves % 2 = 1 THEN 5 ELSE 0]

\* ------------------------------------------------------ field extractors
half_star_per_icon(stars) ==
    stars[2]

half_star(stars) ==
    IF stars[2] > 0 THEN 1 ELSE 0

stars_rating(stars) ==
    StarsOver5(stars[1], half_star(stars))

HasNumber(t) == t # NoElem /\ t # NoNumber

extract_star_rating(c) ==
    IF HasNumber(c.label) THEN FloatOver5(c.label)
    ELSE IF c.stars # NoElem THEN stars_rating(c.stars)
    ELSE IF HasNumber(c.text) THEN FloatOver5(c.text)
    ELSE NA_rating

\* c.reviews: NoElem, or <<n>>: the first digit run of the rating-count element or of
\* the first review|rating text, commas removed (n = -1: it holds no digit)
extract_review_count(c) ==
    IF c.reviews = NoElem THEN 0
    ELSE IF c.reviews[1] = -1 THEN 0 ELSE c.reviews[1]

\* c.inventory: NoElem, or <<n>>: the first digit run of the matched low-stock text
\* (n = -1: "low stock", no digit)
extract_inventory_count(c) ==
    IF c.inventory = NoElem THEN [text |-> "N/A", n |-> 0]
    ELSE IF c.inventory[1] = -1 THEN [text |-> "Low Stock", n |-> 0]
    ELSE [text |-> "digits", n |-> c.inventory[1]]

\* c.seller: the set of seller signals present in the card
is_sold_by_target(c) ==
    IF "only at target" \in c.seller THEN "Yes"
    ELSE IF "Target logo" \in c.seller THEN "Yes"
    ELSE IF "sold by target" \in c.seller THEN "Yes"
    ELSE "No"

\* ------------------------------------------------------------ the rating run
RatingCards ==
    [label : Labels, stars : StarBoxes, text : RatingTexts]

NoFile      == [exists |-> FALSE, rows |-> <<>>]
NotPrinted  == <<>>
NotReturned == [returned |-> FALSE, list |-> <<>>]
NoPrevRun   == [known |-> FALSE, urls |-> {}]

RunIdle ==
    /\ csv = NoFile /\ pc = "idle" /\ page_num = 0 /\ existing_urls = {}
    /\ all_products = <<>> /\ new_products_count = 0 /\ total = NotPrinted
    /\ loaded_urls = {} /\ csv_at_start = NoFile /\ ref_urls = {}
    /\ ref_products = <<>> /\ pages_seen = 0 /\ extracted = {}
    /\ prev_extracted = NoPrevRun /\ last_products = NotReturned
    /\ outcome = "none" /\ failures = 0

InitRating ==
    /\ container \in RatingCards
    /\ rating = NoRatingYet
    /\ soup = <<>> /\ products = NotReturned
    /\ RunIdle

ExtractRating ==
    /\ rating = NoRatingYet
    /\ rating' = extract_star_rating(container)
    /\ UNCHANGED <<container, runVars, extractVars>>

NextRating == ExtractRating

SpecRating == InitRating /\ [][NextRating]_vars

\* ----------------------------------------------------- claims on the rating
RatingTenths(r) == r.whole * 10 + r.frac

\* C7: the rating is "N/A" or "v/5" with 0 <= v <= 5, whichever strategy produced it.
C7_RatingWithinFive ==
    rating # NoRatingYet =>
        \/ rating = NA_rating
        \/ rating.kind = "v/5" /\ 0 <= RatingTenths(rating) /\ RatingTenths(rating) <= 50

StarsStrategy ==
    /\ rating # NoRatingYet
    /\ ~HasNumber(container.label)
    /\ container.stars # NoElem

\* C8 as claimed: with no label number and a rating-stars container, the rating is
\* the number of full-star icons plus 0.5 for EACH half-star icon.
C8_HalfPerIcon ==
    StarsStrategy =>
        /\ rating.kind = "v/5"
        /\ RatingTenths(rating) = container.stars[1] * 10 + container.stars[2] * 5

\* C8 as amended: with no label number and a rating-stars container, the rating is
\* the number of full-star icons plus 0.5 if the container holds at least one
\* half-star icon, however many it holds.
C8_HalfOnce ==
    StarsStrategy =>
        /\ rating.kind = "v/5"
        /\ RatingTenths(rating) =
              container.stars[1] * 10 + (IF container.stars[2] >= 1 THEN 5 ELSE 0)

C8_Witness ==
    /\ StarsStrategy
    /\ container.stars = <<3, 2>>
    /\ rating = [kind |-> "v/5", whole |-> 3, frac |-> 5]

\* --------------------------------------------------- extract_product_data
Urls   == 1..MaxUrl
\* link['href']: <<path, query>>; the same product is linked with several queries
Hrefs  == {<<u, q>> : u \in Urls, q \in {0, 1}}
Titles == {"", "a"}                 \* link.get_text(strip=True)
Prices == {NoElem, <<"">>, <<"$1">>} \* the [data-test="current-price"] element's text

\* the optional signals of a card: none of them, or all of them
Bare == [brand |-> NoElem, label |-> NoElem, stars |-> NoElem, text |-> NoElem,
         reviews |-> NoElem, inventory |-> NoElem, seller |-> {}]
Rich == [brand |-> <<"b">>, label |-> <<4, 5>>, stars |-> <<4, 1>>, text |-> NoElem,
         reviews |-> <<128>>, inventory |-> <<3>>, seller |-> {"sold by target"}]

Card(link, href, title, price, opt) ==
    [link |-> link, href |-> href, title |-> title, price |-> price,
     brand |-> opt.brand, label |-> opt.label, stars |-> opt.stars, text |-> opt.text,
     reviews |-> opt.reviews, inventory |-> opt.inventory, seller |-> opt.seller]

\* a card without a title link: nothing else of it is read
NoLinkCard == Card(FALSE, <<1, 0>>, "", NoElem, Bare)

Cards ==
    {NoLinkCard} \cup
    {Card(TRUE, h, t, p, o) : h \in Hrefs, t \in Titles, p \in Prices, o \in {Bare, Rich}}

\* urljoin(base_url, href), then scheme://netloc/path: the query is dropped
clean_url(href) == href[1]

already_seen_never(u, seen_urls) == FALSE

already_seen(u, seen_urls) == u \in seen_urls

mark_seen_if_emitted(seen_urls, u, c) ==
    IF c.title # "" /\ c.price # NoElem THEN seen_urls \cup {u} ELSE seen_urls

\* seen_urls.add(clean_url): before the title and the price are looked at
mark_seen(seen_urls, u, c) == seen_urls \cup {u}

has_title_always(c) == TRUE

has_title(c) == c.title # ""

has_price(c) == c.price # NoElem

\* the record built from a card that passed every check
product_of(c) ==
    [url            |-> clean_url(c.href),
     title          |-> c.title,
     brand          |-> IF c.brand = NoElem THEN "N/A" ELSE c.brand[1],
     price          |-> c.price[1],
     rating         |-> extract_star_rating(c),
     reviews        |-> extract_review_count(c),
     inventory      |-> extract_inventory_count(c),
     sold_by_target |-> is_sold_by_target(c),
     seller_name    |-> IF is_sold_by_target(c) = "Yes" THEN "Target" ELSE "N/A"]

RECURSIVE extract_loop(_, _, _)
extract_loop(cards, seen_urls, acc) ==
    IF cards = <<>> THEN acc
    ELSE LET c    == Head(cards)
             rest == Tail(cards)
             u    == clean_url(c.href)
         IN  IF ~c.link THEN extract_loop(rest, seen_urls, acc)
             ELSE IF already_seen(u, seen_urls) THEN extract_loop(rest, seen_urls, acc)
             ELSE IF ~has_title(c) THEN extract_loop(rest, mark_seen(seen_urls, u, c), acc)
             ELSE IF ~has_price(c) THEN extract_loop(rest, mark_seen(seen_urls, u, c), acc)
             ELSE extract_loop(rest, mark_seen(seen_urls, u, c),
                               Append(acc, product_of(c)))

extract_product_data(doc) == extract_loop(doc, {}, <<>>)

SeqsUpTo(S, n) == UNION {[1..k -> S] : k \in 0..n}

InitExtract ==
    /\ soup \in SeqsUpTo(Cards, MaxCards)
    /\ products = NotReturned
    /\ container = [label |-> NoElem, stars |-> NoElem, text |-> NoElem]
    /\ rating = NoRatingYet
    /\ RunIdle

ExtractProducts ==
    /\ ~products.returned
    /\ products' = [returned |-> TRUE, list |-> extract_product_data(soup)]
    /\ UNCHANGED <<soup, runVars, ratingVars>>

NextExtract == ExtractProducts

SpecExtract == InitExtract /\ [][NextExtract]_vars

\* ------------------------------------------- claims on extract_product_data
LinkIdx  == {i \in DOMAIN soup : soup[i].link}
UrlAt(i) == clean_url(soup[i].href)
\* no earlier card of the document resolved to card i's identity
IsFirst(i) ==
    /\ i \in LinkIdx
    /\ \A j \in LinkIdx : j < i => UrlAt(j) # UrlAt(i)
FirstWith(u) == CHOOSE i \in LinkIdx : UrlAt(i) = u /\ IsFirst(i)
Shared(u)    == Cardinality({i \in LinkIdx : UrlAt(i) = u}) >= 2
RecordsFor(u) == {k \in DOMAIN products.list : products.list[k].url = u}
\* a title link with a target, non-empty title text and a current-price marker
Emittable(c) == c.link /\ c.title # "" /\ c.price # NoElem
BuiltFrom(p, c) ==
    /\ Emittable(c)
    /\ p.url = clean_url(c.href) /\ p.title = c.title /\ <<p.price>> = c.price
    /\ p.brand = (IF c.brand = NoElem THEN "N/A" ELSE c.brand[1])
    /\ p.rating = extract_star_rating(c)
    /\ p.reviews = extract_review_count(c)
    /\ p.inventory = extract_inventory_count(c)
    /\ p.sold_by_target = is_sold_by_target(c)

\* C2 as claimed: an identity shared by two or more cards of the document gets
\* exactly one record, built from the first of them, whatever title text and price
\* marker the cards have.
C2_ExactlyOneFromFirst ==
    products.returned =>
        \A u \in Urls : Shared(u) =>
            /\ Cardinality(RecordsFor(u)) = 1
            /\ \A k \in RecordsFor(u) : BuiltFrom(products.list[k], soup[FirstWith(u)])

\* C2 as amended: an identity shared by two or more cards gets at most one record;
\* it gets one exactly when the first of those cards has title text and a price
\* marker, and the record is built from that first card.  When the first card lacks
\* either, the identity gets no record, whatever the later cards hold.
C2_AtMostOneFromFirst ==
    products.returned =>
        \A u \in Urls : Shared(u) =>
            /\ Cardinality(RecordsFor(u)) <= 1
            /\ Cardinality(RecordsFor(u)) = 1 <=> Emittable(soup[FirstWith(u)])
            /\ \A k \in RecordsFor(u) : BuiltFrom(products.list[k], soup[FirstWith(u)])

C2_Witness ==
    /\ products.returned
    /\ Len(soup) >= 2
    /\ Emittable(soup[1]) /\ Emittable(soup[2])
    /\ UrlAt(1) = UrlAt(2)
    /\ soup[1].price # soup[2].price
    /\ Len(products.list) = 1
    /\ <<products.list[1].price>> = soup[1].price

\* C5: a card whose identity was not seen earlier in the document yields a record
\* iff it has a title link, non-empty title text and a price marker; nothing else
\* is emitted; every record has an identity, a non-empty title and the text of its
\* card's price marker; missing optional signals never drop a card.
C5_EmittedIffRequired ==
    products.returned =>
        /\ \A i \in DOMAIN soup : IsFirst(i) =>
              ((\E k \in DOMAIN products.list : BuiltFrom(products.list[k], soup[i]))
                  <=> Emittable(soup[i]))
        /\ Len(products.list)
              = Cardinality({i \in DOMAIN soup : IsFirst(i) /\ Emittable(soup[i])})
        /\ \A k \in DOMAIN products.list :
              /\ products.list[k].url \in Urls
              /\ products.list[k].title # ""
              /\ \E i \in DOMAIN soup : IsFirst(i) /\ BuiltFrom(products.list[k], soup[i])

C5_Witness ==
    /\ products.returned
    /\ Len(soup) = 2
    /\ IsFirst(1) /\ soup[1].title # "" /\ soup[1].price = NoElem
    /\ IsFirst(2) /\ Emittable(soup[2]) /\ soup[2].brand = NoElem
    /\ soup[2].label = NoElem /\ soup[2].seller = {}
    /\ Len(products.list) = 1
    /\ products.list[1].url = UrlAt(2)
    /\ products.list[1].brand = "N/A" /\ products.list[1].rating = NA_rating

\* --------------------------------------------------------------- the run
\* the cards of the pages of a run: with or without a title link and title text
RunCards ==
    {NoLinkCard} \cup {Card(TRUE, <<u, 0>>, t, <<"$1">>, Bare) : u \in Urls, t \in Titles}

\* the documents of the page files that read and parse
RunDocs        == SeqsUpTo(RunCards, MaxCards)

\* DictWriter.writerow: the record's values in fieldnames order
csv_row(p) ==
    <<p.url, p.title, p.brand, p.price, p.rating, p.reviews, p.inventory,
      p.sold_by_target, p.seller_name>>

Urls_of(records) == {records[i].url : i \in DOMAIN records}
RowUrls(rows)    == {rows[i][1] : i \in DOMAIN rows}
Injective(f)     == \A i, j \in DOMAIN f : i # j => f[i] # f[j]
UniqueRows(rows)       == Injective([i \in DOMAIN rows |-> rows[i][1]])
UniqueRecords(records) == Injective([i \in DOMAIN records |-> records[i].url])

load_existing_products_nothing(file) == {}

\* the 'url' column of every row DictReader yields
load_existing_products(file) ==
    IF file.exists THEN {file.rows[i][1] : i \in DOMAIN file.rows} ELSE {}

\* [p for p in products if p['url'] not in existing_urls]
new_products_unfiltered(prods, urls) == prods

new_products(prods, urls) ==
    SelectSeq(prods, LAMBDA p : p.url \notin urls)

update_urls_forgotten(urls, new) == urls

\* existing_urls.update(p['url'] for p in new_products)
update_urls(urls, new) == urls \cup Urls_of(new)

after_failure_break(n) == NumPages + 1

\* `continue` of the except clause: the loop goes on with the next page
after_failure(n) == n + 1

save_to_csv(file, prods) ==
    IF prods = <<>> THEN file
    ELSE [exists |-> TRUE,
          rows   |-> file.rows \o [i \in DOMAIN prods |-> csv_row(prods[i])]]

\* sum(1 for _ in csv.DictReader(f)) - 1: DictReader has taken the header already
printed_total(file) == Len(file.rows) - 1

\* dedupe(knownIdentities, records) -> <<novelRecords, updatedKnownIdentities>>:
\* each accepted identity joins the set before the next record is evaluated
RECURSIVE dedupe(_, _, _)
dedupe(records, known, acc) ==
    IF records = <<>> THEN <<acc, known>>
    ELSE IF Head(records).url \in known THEN dedupe(Tail(records), known, acc)
    ELSE dedupe(Tail(records), known \cup {Head(records).url},
                Append(acc, Head(records)))

\* the stores a first run can find: no file, or rows with pairwise distinct urls
StoredRows == {csv_row(product_of(c)) : c \in {k \in RunCards : Emittable(k)}}
InitialStores ==
    {NoFile} \cup
    {[exists |-> TRUE, rows |-> r] :
        r \in {q \in SeqsUpTo(StoredRows, MaxUrl) : UniqueRows(q)}}

Init ==
    /\ csv \in InitialStores
    /\ pc = "idle" /\ page_num = 0 /\ existing_urls = {}
    /\ all_products = <<>> /\ new_products_count = 0 /\ total = NotPrinted
    /\ loaded_urls = {} /\ csv_at_start = csv /\ ref_urls = {}
    /\ ref_products = <<>> /\ pages_seen = 0 /\ extracted = {}
    /\ prev_extracted = NoPrevRun /\ last_products = NotReturned
    /\ outcome = "none" /\ failures = 0
    /\ soup = <<>> /\ products = NotReturned
    /\ container = [label |-> NoElem, stars |-> NoElem, text |-> NoElem]
    /\ rating = NoRatingYet

\* main calls scrape_all_pages, which loads the Identity Set
StartRun ==
    /\ pc \in {"idle", "done"}
    /\ existing_urls' = load_existing_products(csv)
    /\ all_products' = <<>>
    /\ new_products_count' = 0
    /\ page_num' = 1
    /\ total' = NotPrinted
    /\ pc' = "loop"
    /\ loaded_urls' = existing_urls'
    /\ csv_at_start' = csv
    /\ ref_urls' = existing_urls'
    /\ ref_products' = <<>>
    /\ pages_seen' = 0
    /\ extracted' = {}
    /\ prev_extracted' = IF pc = "done" THEN [known |-> TRUE, urls |-> extracted]
                                        ELSE NoPrevRun
    /\ last_products' = NotReturned
    /\ outcome' = "none"
    /\ failures' = 0
    /\ UNCHANGED <<csv, extractVars, ratingVars>>

\* the page file does not exist
SkipMissingPage ==
    /\ pc = "loop" /\ page_num <= NumPages
    /\ page_num' = page_num + 1
    /\ pages_seen' = pages_seen + 1
    /\ outcome' = "File not found"
    /\ UNCHANGED <<csv, pc, existing_urls, all_products, new_products_count, total,
                   loaded_urls, csv_at_start, ref_urls, ref_products, extracted,
                   prev_extracted, last_products, failures, extractVars, ratingVars>>

\* the body of the try block, for a page that reads and parses
ProcessPage ==
    /\ pc = "loop" /\ page_num <= NumPages
    /\ \E doc \in RunDocs :
        LET prods == extract_product_data(doc)
            new   == new_products(prods, existing_urls)
            ref   == dedupe(prods, ref_urls, <<>>)
        IN  /\ all_products' = all_products \o new
            /\ new_products_count' = new_products_count + Len(new)
            /\ existing_urls' = update_urls(existing_urls, new)
            /\ last_products' = [returned |-> TRUE, list |-> prods]
            /\ ref_products' = ref_products \o ref[1]
            /\ ref_urls' = ref[2]
            /\ extracted' = extracted \cup Urls_of(prods)
    /\ page_num' = page_num + 1
    /\ pages_seen' = pages_seen + 1
    /\ outcome' = "Processed page"
    /\ UNCHANGED <<csv, pc, total, loaded_urls, csv_at_start, prev_extracted,
                   failures, extractVars, ratingVars>>

\* reading or parsing the page raises: the except clause reports it
FailPage ==
    /\ pc = "loop" /\ page_num <= NumPages
    /\ page_num' = after_failure(page_num)
    /\ pages_seen' = pages_seen + 1
    /\ outcome' = "Error processing page"
    /\ failures' = failures + 1
    /\ UNCHANGED <<csv, pc, existing_urls, all_products, new_products_count, total,
                   loaded_urls, csv_at_start, ref_urls, ref_products, extracted,
                   prev_extracted, last_products, extractVars, ratingVars>>

\* scrape_all_pages returns; main saves what is new
SaveNew ==
    /\ pc = "loop" /\ page_num > NumPages
    /\ csv' = IF new_products_count > 0 THEN save_to_csv(csv, all_products) ELSE csv
    /\ pc' = "saved"
    /\ UNCHANGED <<page_num, existing_urls, all_products, new_products_count, total,
                   loaded_urls, csv_at_start, ref_urls, ref_products, pages_seen,
                   extracted, prev_extracted, last_products, outcome, failures,
                   extractVars, ratingVars>>

\* main prints the total when the store file exists
ShowTotal ==
    /\ pc = "saved"
    /\ total' = IF csv.exists THEN <<printed_total(csv)>> ELSE NotPrinted
    /\ pc' = "done"
    /\ UNCHANGED <<csv, page_num, existing_urls, all_products, new_products_count,
                   loaded_urls, csv_at_start, ref_urls, ref_products, pages_seen,
                   extracted, prev_extracted, last_products, outcome, failures,
                   extractVars, ratingVars>>

Next ==
    \/ StartRun
    \/ SkipMissingPage
    \/ ProcessPage
    \/ FailPage
    \/ SaveNew
    \/ ShowTotal

Spec == Init /\ [][Next]_vars

\* ------------------------------------------------------ claims on the run
\* C1: after each processed document the accumulated novel records hold at most
\* one record per identity and none whose identity was loaded at run start.
C1_NovelOncePerIdentity ==
    /\ UniqueRecords(all_products)
    /\ Urls_of(all_products) \cap loaded_urls = {}

\* the page processed last held a card that an earlier page of the run had
\* contributed: the last record accumulated is not from the last page
C1_Witness ==
    /\ pc = "loop" /\ outcome = "Processed page"
    /\ all_products # <<>>
    /\ all_products[Len(all_products)].url \notin Urls_of(last_products.list)
    /\ Urls_of(last_products.list) \cap Urls_of(all_products) # {}

\* C3: a store without two rows of one identity before the first run has none
\* after any number of complete runs.
C3_StoreRowsUnique ==
    csv.exists => UniqueRows(csv.rows)

\* a second or later run has appended rows to a store that held rows, while
\* extracting an identity the store held already
C3_Witness ==
    /\ pc = "done" /\ prev_extracted.known
    /\ csv_at_start.rows # <<>>
    /\ Len(csv.rows) > Len(csv_at_start.rows)
    /\ extracted \cap RowUrls(csv_at_start.rows) # {}

\* C4: the filter applied again to the records of a processed page, with the
\* Identity Set as the first application left it, accepts nothing; and a run that
\* extracts only identities the previous run extracted (so every run over the same
\* documents) finds no new product and leaves the store as it found it.
C4_SecondPassAcceptsNothing ==
    /\ last_products.returned =>
          new_products(last_products.list, existing_urls) = <<>>
    /\ (pc \in {"saved", "done"} /\ prev_extracted.known
            /\ extracted \subseteq prev_extracted.urls) =>
          /\ new_products_count = 0
          /\ all_products = <<>>
          /\ csv = csv_at_start

\* a run has extracted what the previous run extracted, and the store holds it
C4_Witness ==
    /\ pc = "done" /\ prev_extracted.known
    /\ extracted # {}
    /\ extracted = prev_extracted.urls
    /\ new_products_count = 0
    /\ csv.exists /\ csv = csv_at_start
    /\ extracted \subseteq RowUrls(csv.rows)

\* C6: a page that raises leaves the Identity Set, the records and the counter as
\* they were and the loop goes on with the next page; no page is left out, and
\* the run returns the records of the pages that did not raise.
C6_FailureSkipsOnePage ==
    [][ /\ failures' = failures + 1 =>
            /\ existing_urls' = existing_urls
            /\ all_products' = all_products
            /\ new_products_count' = new_products_count
            /\ pc' = "loop"
            /\ page_num' = page_num + 1
        /\ pc' = "loop" => pages_seen' = page_num' - 1
        /\ pc' = "saved" =>
            /\ pages_seen' = NumPages
            /\ all_products' = ref_products'
            /\ new_products_count' = Len(ref_products') ]_vars

\* a page raised after records were accepted, and the last page was processed
C6_Witness ==
    /\ pc = "saved"
    /\ failures >= 1
    /\ outcome = "Processed page"
    /\ last_products.list # <<>>
    /\ all_products[Len(all_products)].url \in Urls_of(last_products.list)

\* C9: filtering all records of a document against the Identity Set and adding
\* the accepted identities afterwards accepts the same records, in the same order,
\* as a record-by-record filter that adds each accepted identity at once, and both
\* end with the same Identity Set.
C9_BatchEqualsRecordByRecord ==
    /\ all_products = ref_products
    /\ existing_urls = ref_urls

\* a page with two records was processed and both records were accepted
C9_Witness ==
    /\ pc = "loop" /\ outcome = "Processed page"
    /\ Len(last_products.list) >= 2
    /\ Len(all_products) >= 2
    /\ all_products[Len(all_products)].url \in Urls_of(last_products.list)
    /\ all_products[Len(all_products) - 1].url \in Urls_of(last_products.list)
    /\ existing_urls = loaded_urls \cup Urls_of(all_products)

\* C10: when the store file exists at the end of main, the printed total is the
\* number of data rows of the store.
C10_TotalIsRowCount ==
    (pc = "done" /\ csv.exists) => total = <<Len(csv.rows)>>

=============================================================================
